---- MODULE Spec2Model ----
(***************************************************************************)
(* A model of minikin's FontFamily (libs/minikin/FontFamily.cpp) and of    *)
(* the SparseBitSet it stores its coverage in.                             *)
(*                                                                         *)
(*   SpecBits       one SparseBitSet: construction from ranges, get, and   *)
(*                  the binary encode / decode / re-encode round trip      *)
(*   SpecStyle      computeMatch and getClosestMatch over families whose   *)
(*                  entries differ in style                                *)
(*   SpecGlyph      hasGlyph over families whose cmap decodes differently  *)
(*   SpecVariation  family construction (computeCoverage) and              *)
(*                  createFamilyWithVariation over families whose entries  *)
(*                  differ in the tables their resources carry             *)
(*   SpecLock       threads running the constructor, analyzeStyle and      *)
(*                  createFamilyWithVariation against gMinikinLock         *)
(*   FairSpec       SpecLock under fair scheduling                         *)
(***************************************************************************)
EXTENDS Integers, Sequences, FiniteSets, TLC

VARIABLES
    bitset,     \* the SparseBitSet under test
    input,      \* the ranges it was constructed from
    buffer,     \* its serialization
    decoded,    \* the SparseBitSet read back from buffer
    rebuffer,   \* the serialization of decoded
    fam,        \* the FontFamily under test
    call,       \* the last call made on fam, with its arguments and result
    pc,         \* per thread: the statement it is about to execute
    lock,       \* gMinikinLock: the thread holding it, 0 when free
    idx,        \* per thread: the loop variable i of the loop it is in
    caller      \* per thread: who invoked the constructor it is running

bitVars == <<bitset, input, buffer, decoded, rebuffer>>
famVars == <<fam, call>>
thrVars == <<pc, lock, idx, caller>>
vars == <<bitset, input, buffer, decoded, rebuffer, fam, call, pc, lock, idx, caller>>

(***************************************************************************)
(* Bounds of the model.                                                    *)
(***************************************************************************)
\* the domain [0, DOMAIN_MAX) of a SparseBitSet, scaled down
DOMAIN_MAX == 10
\* values per page, scaled down
PAGE_SIZE == 4
\* ranges handed to the SparseBitSet constructor
MaxRanges == 2
\* entries of a family
MaxFonts == 3
\* entries of a family whose resources differ in their tables
MaxTableFonts == 2
\* requested variations
MaxVars == 2
\* length of the per-selector coverage table
MaxVsLen == 2
\* threads
NumThreads == 2
\* entries of the family the threads work on
LockFonts == 2

RECURSIVE Pow2(_)
Pow2(n) == IF n = 0 THEN 1 ELSE 2 * Pow2(n - 1)

(***************************************************************************)
(* SparseBitSet.  Its implementation is not among the sources; it is       *)
(* modelled from its design: a page-index table with one entry per page,   *)
(* either the all-clear sentinel or the offset of the page's packed bits.  *)
(***************************************************************************)
\* the page-table entry of a page with no bit set
kNotFound == 65535
\* the first word of a serialized bitset
kFormatVersion == 1

EmptyBitSet == [pageTable |-> <<>>, bits |-> <<>>]

\* c lies in one of the half-open ranges of the flat sequence r
InRanges(r, c) ==
    \E i \in 1..(Len(r) \div 2) : r[2 * i - 1] <= c /\ c < r[2 * i]

\* the word of a page with the bit of value c set
SetBit(words, c) ==
    LET p == c \div PAGE_SIZE + 1
        b == Pow2(c % PAGE_SIZE)
    IN IF (words[p] \div b) % 2 = 1 THEN words
       ELSE [words EXCEPT ![p] = @ + b]

RECURSIVE SetRange(_, _, _)
SetRange(words, start, end) ==
    IF start >= end THEN words
    ELSE SetRange(SetBit(words, start), start + 1, end)

RECURSIVE SetRanges(_, _, _)
SetRanges(words, r, i) ==
    IF i > Len(r) \div 2 THEN words
    ELSE SetRanges(SetRange(words, r[2 * i - 1], r[2 * i]), r, i + 1)

\* the pages of words up to page p that hold a bit
RECURSIVE NonZeroBefore(_, _)
NonZeroBefore(words, p) ==
    IF p = 0 THEN 0
    ELSE NonZeroBefore(words, p - 1) + (IF words[p] # 0 THEN 1 ELSE 0)

RECURSIVE PackPages(_, _)
PackPages(words, p) ==
    IF p > Len(words) THEN <<>>
    ELSE (IF words[p] # 0 THEN <<words[p]>> ELSE <<>>) \o PackPages(words, p + 1)

SparseBitSetMisplaced(r) ==
    IF Len(r) = 0 THEN EmptyBitSet
    ELSE LET maxVal == r[Len(r)]
             nPages == (maxVal + PAGE_SIZE - 1) \div PAGE_SIZE
             words == SetRanges([p \in 1..nPages |-> 0], r, 1)
         IN [pageTable |-> [p \in 1..nPages |->
                               IF words[p] = 0 THEN kNotFound
                               ELSE NonZeroBefore(words, p)],
             bits |-> PackPages(words, 1)]

\* SparseBitSet(ranges, nRanges)
SparseBitSet(r) ==
    IF Len(r) = 0 THEN EmptyBitSet
    ELSE LET maxVal == r[Len(r)]
             nPages == (maxVal + PAGE_SIZE - 1) \div PAGE_SIZE
             words == SetRanges([p \in 1..nPages |-> 0], r, 1)
         IN [pageTable |-> [p \in 1..nPages |->
                               IF words[p] = 0 THEN kNotFound
                               ELSE NonZeroBefore(words, p - 1)],
             bits |-> PackPages(words, 1)]

\* SparseBitSet::get(ch)
get(bs, ch) ==
    IF ch >= DOMAIN_MAX THEN FALSE
    ELSE LET p == ch \div PAGE_SIZE + 1
         IN IF p > Len(bs.pageTable) THEN FALSE
            ELSE IF bs.pageTable[p] = kNotFound THEN FALSE
            ELSE IF bs.pageTable[p] + 1 > Len(bs.bits) THEN FALSE
            ELSE (bs.bits[bs.pageTable[p] + 1] \div Pow2(ch % PAGE_SIZE)) % 2 = 1

\* one unsigned 16-bit value, least significant byte first
WriteU16(w) == <<w % 256, (w \div 256) % 256>>

ReadU16(buf, pos) == buf[pos + 1] + 256 * buf[pos + 2]

RECURSIVE WriteArray(_, _)
WriteArray(a, i) ==
    IF i > Len(a) THEN <<>> ELSE WriteU16(a[i]) \o WriteArray(a, i + 1)

ReadArray(buf, pos, n) == [i \in 1..n |-> ReadU16(buf, pos + 2 * (i - 1))]

SerializeNoBitCount(bs) ==
    WriteU16(kFormatVersion) \o WriteU16(Len(bs.pageTable)) \o WriteU16(0)
        \o WriteArray(bs.pageTable, 1) \o WriteArray(bs.bits, 1)

\* SparseBitSet::writeTo(writer): header, page-index table, packed bits
Serialize(bs) ==
    WriteU16(kFormatVersion) \o WriteU16(Len(bs.pageTable)) \o WriteU16(Len(bs.bits))
        \o WriteArray(bs.pageTable, 1) \o WriteArray(bs.bits, 1)

\* SparseBitSet(reader): an empty or truncated blob is the empty set
Deserialize(buf) ==
    IF Len(buf) < 6 THEN EmptyBitSet
    ELSE LET nPages == ReadU16(buf, 2)
             nBits == ReadU16(buf, 4)
         IN IF Len(buf) < 6 + 2 * (nPages + nBits) THEN EmptyBitSet
            ELSE [pageTable |-> ReadArray(buf, 6, nPages),
                  bits |-> ReadArray(buf, 6 + 2 * nPages, nBits)]

\* the non-decreasing sequences of n values in lo..DOMAIN_MAX
RECURSIVE NonDecreasing(_, _)
NonDecreasing(n, lo) ==
    IF n = 0 THEN {<<>>}
    ELSE UNION {{<<v>> \o s : s \in NonDecreasing(n - 1, v)} : v \in lo..DOMAIN_MAX}

\* the flat range buffers of the tests: 2 * count non-decreasing values
RangeBuffers == UNION {NonDecreasing(2 * n, 0) : n \in 0..MaxRanges}

NoBitSet == [none |-> TRUE]
NoBuffer == <<>>

InitBitVars ==
    /\ bitset = NoBitSet
    /\ input = <<>>
    /\ buffer = NoBuffer
    /\ decoded = NoBitSet
    /\ rebuffer = NoBuffer

(***************************************************************************)
(* FontStyle, Font and the resources (MinikinFont) behind them.  A         *)
(* resource is known by its handle (id) and carries the tables the         *)
(* decoders read: cmap, as the coverage it decodes to, and fvar, as the    *)
(* axis tags it declares.  varied holds the variations it was derived with.*)
(***************************************************************************)
Slants == {"UPRIGHT", "ITALIC"}

FontStyle(weight, slant) == [weight |-> weight, slant |-> slant]

\* FontStyle(): regular weight, upright
kRegularWeight == 400
defaultStyle == FontStyle(kRegularWeight, "UPRIGHT")

NullBitSetPtr == [null |-> TRUE, bitset |-> EmptyBitSet]
BitSetPtr(r) == [null |-> FALSE, bitset |-> SparseBitSet(r)]

AbsentCmap == [present |-> FALSE, ranges |-> <<>>, fmt14 |-> <<>>]
AbsentFvar == [size |-> 0, axes |-> {}]

NullTypeface == [id |-> 0, cmap |-> AbsentCmap, fvar |-> AbsentFvar, varied |-> <<>>]

MinikinFont(id, cmap, fvar) == [id |-> id, cmap |-> cmap, fvar |-> fvar, varied |-> <<>>]

\* Font::Font(typeface, style)
Font(typeface, style) == [typeface |-> typeface, style |-> style]

\* getFontTable(typeface, tag): the table, absent for a null typeface
getFontTable(typeface, tag) ==
    IF typeface = NullTypeface
    THEN (IF tag = "cmap" THEN AbsentCmap ELSE AbsentFvar)
    ELSE (IF tag = "cmap" THEN typeface.cmap ELSE typeface.fvar)

\* analyzeAxes(fvar): the axis tags the table declares
analyzeAxes(fvarTable) == fvarTable.axes

\* Font::getSupportedAxesLocked()
getSupportedAxesLocked(font) ==
    LET fvarTable == getFontTable(font.typeface, "fvar")
    IN IF fvarTable.size = 0 THEN {} ELSE analyzeAxes(fvarTable)

\* CmapCoverage::getCoverage(cmap, &fmt14): the base coverage and the
\* per-selector table
getCoverage(cmapTable) ==
    [coverage |-> SparseBitSet(cmapTable.ranges),
     fmt14 |-> [i \in 1..Len(cmapTable.fmt14) |->
                   IF cmapTable.fmt14[i].null THEN NullBitSetPtr
                   ELSE BitSetPtr(cmapTable.fmt14[i].ranges)]]

\* MinikinFont::createFontWithVariation(variations), when it succeeds
createFontWithVariation(typeface, variations) ==
    [typeface EXCEPT !.varied = variations]

(***************************************************************************)
(* Style matching.                                                         *)
(***************************************************************************)
\* computeMatch(style1, style2)
computeMatch(style1, style2) ==
    IF style1 = style2 THEN 0
    ELSE LET d == style1.weight \div 100 - style2.weight \div 100
             score == IF d < 0 THEN -d ELSE d
         IN IF style1.slant # style2.slant THEN score + 2 ELSE score

\* computeFakery(wanted, actual)
computeFakery(wanted, actual) ==
    [fakeBold |-> wanted.weight >= 600 /\ wanted.weight - actual.weight >= 200,
     fakeItalic |-> wanted.slant = "ITALIC" /\ actual.slant = "UPRIGHT"]

NoFakery == [fakeBold |-> FALSE, fakeItalic |-> FALSE]

\* the loop of getClosestMatch from entry i on; best is the index of
\* bestFont (0: nullptr)
RECURSIVE ClosestLoopLast(_, _, _, _, _)
ClosestLoopLast(mFonts, style, i, best, bestMatch) ==
    IF i > Len(mFonts) THEN best
    ELSE LET match == computeMatch(mFonts[i].style, style)
         IN IF i = 1 \/ match <= bestMatch
            THEN ClosestLoopLast(mFonts, style, i + 1, i, match)
            ELSE ClosestLoopLast(mFonts, style, i + 1, best, bestMatch)

RECURSIVE ClosestLoop(_, _, _, _, _)
ClosestLoop(mFonts, style, i, best, bestMatch) ==
    IF i > Len(mFonts) THEN best
    ELSE LET match == computeMatch(mFonts[i].style, style)
         IN IF i = 1 \/ match < bestMatch
            THEN ClosestLoop(mFonts, style, i + 1, i, match)
            ELSE ClosestLoop(mFonts, style, i + 1, best, bestMatch)

\* FontFamily::getClosestMatch(style)
getClosestMatch(mFonts, style) ==
    LET best == ClosestLoop(mFonts, style, 1, 0, 0)
    IN IF best # 0
       THEN [font |-> mFonts[best].typeface,
             fakery |-> computeFakery(style, mFonts[best].style)]
       ELSE [font |-> NullTypeface, fakery |-> NoFakery]

(***************************************************************************)
(* Construction and coverage.                                              *)
(***************************************************************************)
RECURSIVE UnionAxes(_, _)
UnionAxes(mFonts, i) ==
    IF i > Len(mFonts) THEN {}
    ELSE getSupportedAxesLocked(mFonts[i]) \cup UnionAxes(mFonts, i + 1)

\* FontFamily::computeCoverage()
computeCoverage(f) ==
    LET typeface == getClosestMatch(f.mFonts, defaultStyle).font
        cmapTable == getFontTable(typeface, "cmap")
    IN IF ~cmapTable.present THEN f
       ELSE LET cov == getCoverage(cmapTable)
            IN [f EXCEPT !.mCoverage = cov.coverage,
                         !.mCmapFmt14Coverage = cov.fmt14,
                         !.mSupportedAxes = UnionAxes(f.mFonts, 1)]

\* FontFamily::FontFamily(localeListId, variant, fonts)
FontFamily(localeListId, variant, fonts) ==
    computeCoverage([mLocaleListId |-> localeListId,
                     mVariant |-> variant,
                     mFonts |-> fonts,
                     mCoverage |-> EmptyBitSet,
                     mCmapFmt14Coverage |-> <<>>,
                     mSupportedAxes |-> {}])

\* the value getVsIndex gives a code point that is no variation selector
INVALID_VS_INDEX == 65535

\* getVsIndex(codePoint): VS1..VS16 are U+FE00..U+FE0F, VS17..VS256 are
\* U+E0100..U+E01EF
getVsIndex(codePoint) ==
    IF 65024 <= codePoint /\ codePoint <= 65039 THEN codePoint - 65024
    ELSE IF 917760 <= codePoint /\ codePoint <= 917999 THEN codePoint - 917760 + 16
    ELSE INVALID_VS_INDEX

\* what a read of a vector outside its bounds is flagged with
OutOfBounds == [null |-> TRUE, bitset |-> EmptyBitSet, oob |-> TRUE]

\* v[i] of a std::vector, i counted from 0
VectorAt(v, i) == IF i < Len(v) THEN v[i + 1] ELSE OutOfBounds

Answer(value) == [value |-> value, oob |-> FALSE]

hasGlyphOffByOne(f, codepoint, variationSelector) ==
    IF variationSelector = 0 THEN Answer(get(f.mCoverage, codepoint))
    ELSE IF Len(f.mCmapFmt14Coverage) = 0 THEN Answer(FALSE)
    ELSE LET vsIndex == getVsIndex(variationSelector)
         IN IF vsIndex > Len(f.mCmapFmt14Coverage) THEN Answer(FALSE)
            ELSE LET ptr == VectorAt(f.mCmapFmt14Coverage, vsIndex)
                 IN IF ptr = OutOfBounds THEN [value |-> FALSE, oob |-> TRUE]
                    ELSE IF ptr.null THEN Answer(FALSE)
                    ELSE Answer(get(ptr.bitset, codepoint))

\* FontFamily::hasGlyph(codepoint, variationSelector): the answer, and
\* whether the per-selector table was read outside its bounds
hasGlyph(f, codepoint, variationSelector) ==
    IF variationSelector = 0 THEN Answer(get(f.mCoverage, codepoint))
    ELSE IF Len(f.mCmapFmt14Coverage) = 0 THEN Answer(FALSE)
    ELSE LET vsIndex == getVsIndex(variationSelector)
         IN IF vsIndex >= Len(f.mCmapFmt14Coverage) THEN Answer(FALSE)
            ELSE LET ptr == VectorAt(f.mCmapFmt14Coverage, vsIndex)
                 IN IF ptr = OutOfBounds THEN [value |-> FALSE, oob |-> TRUE]
                    ELSE IF ptr.null THEN Answer(FALSE)
                    ELSE Answer(get(ptr.bitset, codepoint))

(***************************************************************************)
(* Variation-family derivation.                                            *)
(***************************************************************************)
NoFamily == [none |-> TRUE]

FontVariation(axisTag, value) == [axisTag |-> axisTag, value |-> value]

\* the entries createFamilyWithVariation builds (the loop over mFonts);
\* varyOk holds the entries whose resource can apply the variations
DerivedFontsDropFailed(f, variations, varyOk) ==
    LET keep(i) ==
            LET supportedAxes == getSupportedAxesLocked(f.mFonts[i])
                supportedVariations ==
                    /\ supportedAxes # {}
                    /\ \E k \in 1..Len(variations) : variations[k].axisTag \in supportedAxes
            IN ~supportedVariations \/ i \in varyOk
        RECURSIVE Build(_)
        Build(i) ==
            IF i > Len(f.mFonts) THEN <<>>
            ELSE (IF keep(i)
                  THEN <<Font(IF i \in varyOk /\ getSupportedAxesLocked(f.mFonts[i]) # {}
                                 /\ \E k \in 1..Len(variations) :
                                        variations[k].axisTag \in getSupportedAxesLocked(f.mFonts[i])
                              THEN createFontWithVariation(f.mFonts[i].typeface, variations)
                              ELSE f.mFonts[i].typeface,
                              f.mFonts[i].style)>>
                  ELSE <<>>) \o Build(i + 1)
    IN Build(1)

DerivedFonts(f, variations, varyOk) ==
    [i \in 1..Len(f.mFonts) |->
        LET font == f.mFonts[i]
            supportedAxes == getSupportedAxesLocked(font)
            supportedVariations ==
                /\ supportedAxes # {}
                /\ \E k \in 1..Len(variations) : variations[k].axisTag \in supportedAxes
            minikinFont ==
                IF supportedVariations /\ i \in varyOk
                THEN createFontWithVariation(font.typeface, variations)
                ELSE font.typeface
        IN Font(minikinFont, font.style)]

createFamilyWithVariationNoReject(f, variations, varyOk) ==
    IF Len(variations) = 0 \/ f.mSupportedAxes = {} THEN NoFamily
    ELSE FontFamily(f.mLocaleListId, f.mVariant, DerivedFonts(f, variations, varyOk))

\* FontFamily::createFamilyWithVariation(variations)
createFamilyWithVariation(f, variations, varyOk) ==
    IF Len(variations) = 0 \/ f.mSupportedAxes = {} THEN NoFamily
    ELSE LET hasSupportedAxis ==
                 \E k \in 1..Len(variations) : variations[k].axisTag \in f.mSupportedAxes
         IN IF ~hasSupportedAxis THEN NoFamily
            ELSE FontFamily(f.mLocaleListId, f.mVariant,
                            DerivedFonts(f, variations, varyOk))

\* the entries whose resource createFamilyWithVariation asks for a varied font
Attempted(f, variations) ==
    {i \in 1..Len(f.mFonts) :
        \E k \in 1..Len(variations) :
            variations[k].axisTag \in getSupportedAxesLocked(f.mFonts[i])}

(***************************************************************************)
(* The inputs of the family specifications.                                *)
(***************************************************************************)
Weights == {1, 400, 450, 1000}
Styles == {FontStyle(w, s) : w \in Weights, s \in Slants}

PlainCmap == [present |-> TRUE, ranges |-> <<1, 2>>, fmt14 |-> <<>>]

\* LocaleListCache::kEmptyListId
kEmptyListId == 0

SeqsUpTo(S, n) == UNION {[1..k -> S] : k \in 0..n}

\* families whose entries differ in style only
StyleFamilies ==
    {FontFamily(kEmptyListId, "DEFAULT",
                [i \in 1..Len(st) |-> Font(MinikinFont(i, PlainCmap, AbsentFvar), st[i])]) :
        st \in SeqsUpTo(Styles, MaxFonts)}

\* the cmap tables of the coverage families
Fmt14Entries ==
    {[null |-> TRUE, ranges |-> <<>>]}
        \cup {[null |-> FALSE, ranges |-> r] : r \in {<<>>, <<1, 2>>, <<2, 4>>}}
LongFmt14 ==
    [i \in 1..17 |-> IF i = 17 THEN [null |-> FALSE, ranges |-> <<1, 2>>]
                     ELSE [null |-> TRUE, ranges |-> <<>>]]
CmapTables ==
    {AbsentCmap}
        \cup {[present |-> TRUE, ranges |-> r, fmt14 |-> t] :
                 r \in {<<>>, <<1, 2>>, <<1, 3>>},
                 t \in SeqsUpTo(Fmt14Entries, MaxVsLen) \cup {LongFmt14}}

GlyphFamilies ==
    {FontFamily(kEmptyListId, "DEFAULT",
                <<Font(MinikinFont(1, c, AbsentFvar), defaultStyle)>>) :
        c \in CmapTables}

CodePoints == {1, 2, 3}
\* no selector, VS1, VS2, VS3, VS16, VS17, VS256, and no selector at all
Selectors == {0, 65024, 65025, 65026, 65039, 917760, 917999, 65}

\* families whose entries differ in the tables of their resources
FvarTables ==
    {AbsentFvar, [size |-> 1, axes |-> {"wght"}], [size |-> 1, axes |-> {"slnt"}]}
TableFonts ==
    [style : {defaultStyle, FontStyle(700, "ITALIC")},
     cmap : {PlainCmap, AbsentCmap},
     fvar : FvarTables]
VariationFamilies ==
    {FontFamily(id[1], id[2],
                [i \in 1..Len(fs) |->
                    Font(MinikinFont(i, fs[i].cmap, fs[i].fvar), fs[i].style)]) :
        id \in {<<kEmptyListId, "DEFAULT">>, <<1, "COMPACT">>},
        fs \in SeqsUpTo(TableFonts, MaxTableFonts)}

VariationLists ==
    SeqsUpTo({FontVariation(t, 1) : t \in {"wght", "wdth"}}, MaxVars)

NoCall == [op |-> "none"]

InitFamVars ==
    /\ fam = NoFamily
    /\ call = NoCall

Threads == 1..NumThreads

InitThrVars ==
    /\ pc = [t \in Threads |-> "idle"]
    /\ lock = 0
    /\ idx = [t \in Threads |-> 0]
    /\ caller = [t \in Threads |-> "none"]

(***************************************************************************)
(* SpecBits: one SparseBitSet.                                             *)
(***************************************************************************)
InitBits == InitBitVars /\ InitFamVars /\ InitThrVars

\* SparseBitSet bitset(range.data(), range.size() / 2)
ConstructFromRanges ==
    /\ bitset = NoBitSet
    /\ \E r \in RangeBuffers :
        /\ input' = r
        /\ bitset' = SparseBitSet(r)
    /\ UNCHANGED <<buffer, decoded, rebuffer, famVars, thrVars>>

\* SparseBitSet empty
ConstructEmpty ==
    /\ bitset = NoBitSet
    /\ input' = <<>>
    /\ bitset' = EmptyBitSet
    /\ UNCHANGED <<buffer, decoded, rebuffer, famVars, thrVars>>

\* buffer = writeToBuffer(originalBitset)
WriteToBuffer ==
    /\ bitset # NoBitSet
    /\ buffer = NoBuffer
    /\ buffer' = Serialize(bitset)
    /\ UNCHANGED <<bitset, input, decoded, rebuffer, famVars, thrVars>>

\* BufferReader reader(buffer.data()); SparseBitSet bitset(&reader)
ReadFromBuffer ==
    /\ buffer # NoBuffer
    /\ decoded = NoBitSet
    /\ decoded' = Deserialize(buffer)
    /\ UNCHANGED <<bitset, input, buffer, rebuffer, famVars, thrVars>>

\* newBuffer = writeToBuffer(bitset)
WriteAgain ==
    /\ decoded # NoBitSet
    /\ rebuffer = NoBuffer
    /\ rebuffer' = Serialize(decoded)
    /\ UNCHANGED <<bitset, input, buffer, decoded, famVars, thrVars>>

NextBits == ConstructFromRanges \/ ConstructEmpty \/ WriteToBuffer \/ ReadFromBuffer \/ WriteAgain

SpecBits == InitBits /\ [][NextBits]_vars

(***************************************************************************)
(* The calls on a family.  A family is immutable once constructed and the  *)
(* calls are const, so a call's result does not depend on the calls before *)
(* it: each behaviour makes one call.                                      *)
(***************************************************************************)
CallComputeMatch ==
    /\ call = NoCall
    /\ \E wanted \in Styles, actual \in Styles :
        call' = [op |-> "computeMatch", wanted |-> wanted, actual |-> actual,
                 ret |-> computeMatch(wanted, actual)]
    /\ UNCHANGED <<fam, bitVars, thrVars>>

CallGetClosestMatch ==
    /\ call = NoCall
    /\ \E style \in Styles :
        call' = [op |-> "getClosestMatch", style |-> style,
                 ret |-> getClosestMatch(fam.mFonts, style)]
    /\ UNCHANGED <<fam, bitVars, thrVars>>

CallHasGlyph ==
    /\ call = NoCall
    /\ \E codepoint \in CodePoints \cup {DOMAIN_MAX}, variationSelector \in Selectors :
        call' = [op |-> "hasGlyph", codepoint |-> codepoint,
                 variationSelector |-> variationSelector,
                 ret |-> hasGlyph(fam, codepoint, variationSelector)]
    /\ UNCHANGED <<fam, bitVars, thrVars>>

CallCreateFamilyWithVariation ==
    /\ call = NoCall
    /\ \E variations \in VariationLists :
        \E varyOk \in SUBSET Attempted(fam, variations) :
            call' = [op |-> "createFamilyWithVariation", variations |-> variations,
                     varyOk |-> varyOk,
                     ret |-> createFamilyWithVariation(fam, variations, varyOk)]
    /\ UNCHANGED <<fam, bitVars, thrVars>>

InitStyle == InitBitVars /\ InitThrVars /\ call = NoCall /\ fam \in StyleFamilies
NextStyle == CallComputeMatch \/ CallGetClosestMatch
SpecStyle == InitStyle /\ [][NextStyle]_vars

InitGlyph == InitBitVars /\ InitThrVars /\ call = NoCall /\ fam \in GlyphFamilies
NextGlyph == CallHasGlyph
SpecGlyph == InitGlyph /\ [][NextGlyph]_vars

InitVariation == InitBitVars /\ InitThrVars /\ call = NoCall /\ fam \in VariationFamilies
NextVariation == CallCreateFamilyWithVariation
SpecVariation == InitVariation /\ [][NextVariation]_vars

(***************************************************************************)
(* SpecLock: threads against gMinikinLock.  pc names the statement a       *)
(* thread executes next; each action is one statement, or one statement    *)
(* with the scope exit (the AutoMutex destructor) that follows it.         *)
(***************************************************************************)
\* android::AutoMutex _l(gMinikinLock): blocks until the lock is free
Acquire(t) == lock = 0 /\ lock' = t

\* ~AutoMutex()
Release(t) == lock' = 0

\* the statements that acquire the lock
LockPcs == {"cc_lock", "as_lock", "cf_lock"}

\* the statements that fetch or decode a font table
ReadPcs == {"cc_cmap", "cc_coverage", "cc_axes", "as_os2", "as_analyze", "cf_axes"}

\* new FontFamily(...) called by the embedder
StartConstruct(t) ==
    /\ pc[t] = "idle"
    /\ pc' = [pc EXCEPT ![t] = "cc_lock"]
    /\ caller' = [caller EXCEPT ![t] = "embedder"]
    /\ UNCHANGED <<lock, idx, bitVars, famVars>>

\* computeCoverage: android::AutoMutex _l(gMinikinLock)
ComputeCoverageLock(t) ==
    /\ pc[t] = "cc_lock"
    /\ Acquire(t)
    /\ pc' = [pc EXCEPT ![t] = "cc_cmap"]
    /\ UNCHANGED <<idx, caller, bitVars, famVars>>

\* computeCoverage: getFontTable(typeface, cmapTag) gives no table; return
ComputeCoverageCmapAbsent(t) ==
    /\ pc[t] = "cc_cmap"
    /\ Release(t)
    /\ pc' = [pc EXCEPT ![t] = "idle"]
    /\ caller' = [caller EXCEPT ![t] = "none"]
    /\ UNCHANGED <<idx, bitVars, famVars>>

\* computeCoverage: getFontTable(typeface, cmapTag) gives the table
ComputeCoverageCmap(t) ==
    /\ pc[t] = "cc_cmap"
    /\ pc' = [pc EXCEPT ![t] = "cc_coverage"]
    /\ UNCHANGED <<lock, idx, caller, bitVars, famVars>>

\* computeCoverage: mCoverage = CmapCoverage::getCoverage(...)
ComputeCoverageDecode(t) ==
    /\ pc[t] = "cc_coverage"
    /\ pc' = [pc EXCEPT ![t] = "cc_axes"]
    /\ idx' = [idx EXCEPT ![t] = 0]
    /\ UNCHANGED <<lock, caller, bitVars, famVars>>

\* computeCoverage: mFonts[i].getSupportedAxesLocked()
ComputeCoverageAxes(t) ==
    /\ pc[t] = "cc_axes"
    /\ idx[t] < LockFonts
    /\ idx' = [idx EXCEPT ![t] = @ + 1]
    /\ UNCHANGED <<pc, lock, caller, bitVars, famVars>>

\* computeCoverage: the loop ends; return
ComputeCoverageReturn(t) ==
    /\ pc[t] = "cc_axes"
    /\ idx[t] >= LockFonts
    /\ Release(t)
    /\ pc' = [pc EXCEPT ![t] = "idle"]
    /\ idx' = [idx EXCEPT ![t] = 0]
    /\ caller' = [caller EXCEPT ![t] = "none"]
    /\ UNCHANGED <<bitVars, famVars>>

\* FontFamily::analyzeStyle(typeface, weight, italic)
StartAnalyzeStyle(t) ==
    /\ pc[t] = "idle"
    /\ pc' = [pc EXCEPT ![t] = "as_lock"]
    /\ UNCHANGED <<lock, idx, caller, bitVars, famVars>>

\* analyzeStyle: android::AutoMutex _l(gMinikinLock)
AnalyzeStyleLock(t) ==
    /\ pc[t] = "as_lock"
    /\ Acquire(t)
    /\ pc' = [pc EXCEPT ![t] = "as_os2"]
    /\ UNCHANGED <<idx, caller, bitVars, famVars>>

\* analyzeStyle: getFontTable(typeface, os2Tag) gives no table; return false
AnalyzeStyleOs2Absent(t) ==
    /\ pc[t] = "as_os2"
    /\ Release(t)
    /\ pc' = [pc EXCEPT ![t] = "idle"]
    /\ UNCHANGED <<idx, caller, bitVars, famVars>>

\* analyzeStyle: getFontTable(typeface, os2Tag) gives the table
AnalyzeStyleOs2(t) ==
    /\ pc[t] = "as_os2"
    /\ pc' = [pc EXCEPT ![t] = "as_analyze"]
    /\ UNCHANGED <<lock, idx, caller, bitVars, famVars>>

\* analyzeStyle: return ::minikin::analyzeStyle(...)
AnalyzeStyleReturn(t) ==
    /\ pc[t] = "as_analyze"
    /\ Release(t)
    /\ pc' = [pc EXCEPT ![t] = "idle"]
    /\ UNCHANGED <<idx, caller, bitVars, famVars>>

\* createFamilyWithVariation(variations)
StartCreateFamily(t) ==
    /\ pc[t] = "idle"
    /\ pc' = [pc EXCEPT ![t] = "cf_check"]
    /\ UNCHANGED <<lock, idx, caller, bitVars, famVars>>

\* createFamilyWithVariation: no variation, no axis, or none supported
CreateFamilyReject(t) ==
    /\ pc[t] = "cf_check"
    /\ pc' = [pc EXCEPT ![t] = "idle"]
    /\ UNCHANGED <<lock, idx, caller, bitVars, famVars>>

\* createFamilyWithVariation: a requested axis is supported; enter the loop
CreateFamilyAccept(t) ==
    /\ pc[t] = "cf_check"
    /\ pc' = [pc EXCEPT ![t] = "cf_lock"]
    /\ idx' = [idx EXCEPT ![t] = 0]
    /\ UNCHANGED <<lock, caller, bitVars, famVars>>

CreateFamilyLockSkipped(t) ==
    /\ pc[t] = "cf_lock"
    /\ pc' = [pc EXCEPT ![t] = "cf_axes"]
    /\ UNCHANGED <<lock, idx, caller, bitVars, famVars>>

\* createFamilyWithVariation, in the loop: android::AutoMutex _l(gMinikinLock)
CreateFamilyLock(t) ==
    /\ pc[t] = "cf_lock"
    /\ Acquire(t)
    /\ pc' = [pc EXCEPT ![t] = "cf_axes"]
    /\ UNCHANGED <<idx, caller, bitVars, famVars>>

\* createFamilyWithVariation, in the loop: font.getSupportedAxesLocked()
CreateFamilyAxes(t) ==
    /\ pc[t] = "cf_axes"
    /\ pc' = [pc EXCEPT ![t] = "cf_vary"]
    /\ UNCHANGED <<lock, idx, caller, bitVars, famVars>>

CreateFamilyVaryHolding(t) ==
    /\ pc[t] = "cf_vary"
    /\ idx' = [idx EXCEPT ![t] = @ + 1]
    /\ pc' = [pc EXCEPT ![t] = IF idx[t] + 1 < LockFonts THEN "cf_lock" ELSE "cf_new"]
    /\ UNCHANGED <<lock, caller, bitVars, famVars>>

\* createFamilyWithVariation, in the loop: createFontWithVariation (or not),
\* fonts.push_back, and the end of the iteration's scope
CreateFamilyVary(t) ==
    /\ pc[t] = "cf_vary"
    /\ idx' = [idx EXCEPT ![t] = @ + 1]
    /\ Release(t)
    /\ pc' = [pc EXCEPT ![t] = IF idx[t] + 1 < LockFonts THEN "cf_lock" ELSE "cf_new"]
    /\ UNCHANGED <<caller, bitVars, famVars>>

\* createFamilyWithVariation: new FontFamily(mLocaleListId, mVariant, fonts)
CreateFamilyNew(t) ==
    /\ pc[t] = "cf_new"
    /\ pc' = [pc EXCEPT ![t] = "cc_lock"]
    /\ caller' = [caller EXCEPT ![t] = "createFamilyWithVariation"]
    /\ UNCHANGED <<lock, idx, bitVars, famVars>>

\* a thread's next statement inside a call
Progress(t) ==
    \/ ComputeCoverageLock(t) \/ ComputeCoverageCmapAbsent(t) \/ ComputeCoverageCmap(t)
    \/ ComputeCoverageDecode(t) \/ ComputeCoverageAxes(t) \/ ComputeCoverageReturn(t)
    \/ AnalyzeStyleLock(t) \/ AnalyzeStyleOs2Absent(t) \/ AnalyzeStyleOs2(t)
    \/ AnalyzeStyleReturn(t)
    \/ CreateFamilyReject(t) \/ CreateFamilyAccept(t) \/ CreateFamilyLock(t)
    \/ CreateFamilyAxes(t) \/ CreateFamilyVary(t) \/ CreateFamilyNew(t)

\* a thread's caller makes a call
Start(t) == StartConstruct(t) \/ StartAnalyzeStyle(t) \/ StartCreateFamily(t)

InitLock == InitBitVars /\ InitFamVars /\ InitThrVars
NextLock == \E t \in Threads : Start(t) \/ Progress(t)
SpecLock == InitLock /\ [][NextLock]_vars

\* fair scheduling: a thread that can again and again execute its next
\* statement (the lock is free again and again) does execute it
FairSpec == SpecLock /\ \A t \in Threads : SF_vars(Progress(t))

(***************************************************************************)
(* The properties.                                                         *)
(***************************************************************************)
Score(i) == computeMatch(fam.mFonts[i].style, call.style)

\* C1: for a non-empty family, getClosestMatch returns the font of the
\* entry whose computeMatch score against the requested style is minimal
\* over all entries, and among those of minimal score the earliest listed.
C1_ClosestIsEarliestMinimum ==
    (call.op = "getClosestMatch" /\ Len(fam.mFonts) > 0) =>
        \E i \in 1..Len(fam.mFonts) :
            /\ \A j \in 1..Len(fam.mFonts) : Score(i) <= Score(j)
            /\ \A j \in 1..(i - 1) : Score(j) > Score(i)
            /\ call.ret.font = fam.mFonts[i].typeface

\* a call where two entries of different style tie on the minimal score,
\* the first of them is not the first entry, and it is the one returned
C1_TieKeepsEarliest ==
    /\ call.op = "getClosestMatch"
    /\ \E i \in 2..Len(fam.mFonts) : \E j \in (i + 1)..Len(fam.mFonts) :
        /\ fam.mFonts[i].style # fam.mFonts[j].style
        /\ Score(i) = Score(j)
        /\ \A k \in 1..Len(fam.mFonts) : Score(i) <= Score(k)
        /\ Score(1) > Score(i)
        /\ call.ret.font = fam.mFonts[i].typeface

VariationsMiss(f, variations) ==
    \A k \in 1..Len(variations) : variations[k].axisTag \notin f.mSupportedAxes

\* C2: createFamilyWithVariation returns none exactly when the variation
\* list is empty, or the family's supported-axis set is empty, or no
\* requested axis tag is in the family's supported-axis set.
C2_NoneExactlyOnReject ==
    call.op = "createFamilyWithVariation" =>
        ((call.ret = NoFamily) <=>
            \/ Len(call.variations) = 0
            \/ fam.mSupportedAxes = {}
            \/ VariationsMiss(fam, call.variations))

\* a call with variations, on a family that supports an axis, none of them
\* requested: none is returned
C2_RejectedForNoCommonAxis ==
    /\ call.op = "createFamilyWithVariation"
    /\ Len(call.variations) > 0
    /\ fam.mSupportedAxes # {}
    /\ VariationsMiss(fam, call.variations)
    /\ call.ret = NoFamily

\* C3: a family returned by createFamilyWithVariation has the locale-list
\* identifier, the variant and the number of entries of the original, entry
\* i has the style of the original entry i, and its resource is the varied
\* one if entry i's own axes contain a requested tag and the variation step
\* succeeded, and the original resource otherwise.
C3_DerivedFamilyKeepsEntries ==
    (call.op = "createFamilyWithVariation" /\ call.ret # NoFamily) =>
        /\ call.ret.mLocaleListId = fam.mLocaleListId
        /\ call.ret.mVariant = fam.mVariant
        /\ Len(call.ret.mFonts) = Len(fam.mFonts)
        /\ \A i \in 1..Len(fam.mFonts) :
            /\ i <= Len(call.ret.mFonts)
            /\ call.ret.mFonts[i].style = fam.mFonts[i].style
            /\ call.ret.mFonts[i].typeface =
                   IF /\ \E k \in 1..Len(call.variations) :
                            call.variations[k].axisTag
                                \in getSupportedAxesLocked(fam.mFonts[i])
                      /\ i \in call.varyOk
                   THEN [fam.mFonts[i].typeface EXCEPT !.varied = call.variations]
                   ELSE fam.mFonts[i].typeface

\* a family is returned although the variation step failed on one entry; it
\* succeeded on another, and a third kind of entry was never asked
C3_VariationFailsOnOneEntry ==
    /\ call.op = "createFamilyWithVariation"
    /\ call.ret # NoFamily
    /\ \E i \in Attempted(fam, call.variations) : i \notin call.varyOk
    /\ \E i \in Attempted(fam, call.variations) :
        /\ i \in call.varyOk
        /\ call.ret.mFonts[i].typeface # fam.mFonts[i].typeface
    /\ fam.mFonts[1].style # fam.mFonts[2].style

\* C4: hasGlyph answers from the base coverage for selector 0; for another
\* selector it answers false when there is no per-selector table, when the
\* selector's index is at or beyond the table's size, or when no bitset is
\* recorded at the index, and otherwise answers from that bitset.  It never
\* reads the table outside its bounds.
C4_HasGlyph ==
    call.op = "hasGlyph" =>
        LET table == fam.mCmapFmt14Coverage
            vsIndex == getVsIndex(call.variationSelector)
        IN /\ ~call.ret.oob
           /\ call.ret.value =
                  IF call.variationSelector = 0 THEN get(fam.mCoverage, call.codepoint)
                  ELSE IF Len(table) = 0 \/ vsIndex >= Len(table) THEN FALSE
                  ELSE IF table[vsIndex + 1].null THEN FALSE
                  ELSE get(table[vsIndex + 1].bitset, call.codepoint)

\* a selector whose index is the table's size: one past its last slot
C4_SelectorJustBeyondTable ==
    /\ call.op = "hasGlyph"
    /\ call.variationSelector # 0
    /\ Len(fam.mCmapFmt14Coverage) > 0
    /\ getVsIndex(call.variationSelector) = Len(fam.mCmapFmt14Coverage)
    /\ ~call.ret.value

\* C5: a SparseBitSet constructed from a flat sequence of non-decreasing
\* values read as half-open ranges has get(c) true exactly for the c in one
\* of the ranges, for c up to and beyond the domain maximum.
C5_GetIffInRange ==
    bitset # NoBitSet =>
        \A c \in 0..(DOMAIN_MAX + PAGE_SIZE) : get(bitset, c) <=> InRanges(input, c)

\* two ranges, the first crossing a page boundary, the second adjacent to it
\* and empty
C5_AdjacentEmptyRange ==
    /\ bitset # NoBitSet
    /\ Len(input) = 4
    /\ input[1] < input[2] /\ input[2] = input[3] /\ input[3] = input[4]
    /\ input[1] \div PAGE_SIZE < (input[2] - 1) \div PAGE_SIZE
    /\ get(bitset, input[1])
    /\ ~get(bitset, input[2])

\* C6: the bitset read back from a bitset's serialization answers get as the
\* original does, and serializes to the same bytes.
C6_RoundTrip ==
    /\ decoded # NoBitSet =>
        \A c \in 0..(DOMAIN_MAX + PAGE_SIZE) : get(decoded, c) <=> get(bitset, c)
    /\ rebuffer # NoBuffer => rebuffer = buffer

\* a round trip of a bitset with a set page after an all-clear page
C6_RoundTripOfSparseSet ==
    /\ rebuffer # NoBuffer
    /\ Len(bitset.pageTable) > 1
    /\ bitset.pageTable[1] = kNotFound
    /\ \E c \in 0..DOMAIN_MAX : get(decoded, c)

\* C7: computeMatch is never negative, is 0 for equal styles, and is 0 only
\* for styles of the same weight and slant.
C7_ZeroIsExactMatch ==
    call.op = "computeMatch" =>
        /\ call.ret >= 0
        /\ (call.wanted = call.actual => call.ret = 0)
        /\ (call.ret = 0 =>
               /\ call.wanted.weight = call.actual.weight
               /\ call.wanted.slant = call.actual.slant)

\* C8: a constructed family's supported-axis set is the union of the axis
\* tags its entries' resources declare.
C8_AxesAreUnion ==
    fam.mSupportedAxes =
        UNION {getSupportedAxesLocked(fam.mFonts[i]) : i \in 1..Len(fam.mFonts)}

\* C9: a thread fetching or decoding a font table holds the lock, and no
\* two threads are inside a table read at once.
C9_ReadsUnderLock ==
    \A t \in Threads :
        pc[t] \in ReadPcs =>
            /\ lock = t
            /\ \A u \in Threads \ {t} : pc[u] \notin ReadPcs

\* one thread re-derives an entry's axes while another waits for the lock
C9_ReaderAndWaiter ==
    \E t \in Threads : \E u \in Threads \ {t} :
        pc[t] = "cf_axes" /\ pc[u] \in LockPcs

\* C10: a thread never tries to acquire the lock while holding it, holds no
\* lock once its call has returned, and every call returns.
C10_NoBlocking ==
    \A t \in Threads :
        /\ [](pc[t] \in LockPcs => lock # t)
        /\ [](pc[t] = "idle" => lock # t)
        /\ (pc[t] # "idle") ~> (pc[t] = "idle")

\* createFamilyWithVariation is through its loop and constructs the derived
\* family, which finds the lock held by another thread
C10_DerivedConstructionWaits ==
    \E t \in Threads :
        /\ pc[t] = "cc_lock"
        /\ caller[t] = "createFamilyWithVariation"
        /\ lock \notin {0, t}
====
